---------------------------- MODULE Spec2Model ----------------------------
(***************************************************************************)
(* A model of im2mesh/onet_depth/training.py: the three trainers           *)
(* (Phase1Trainer, Phase2Trainer, Phase2HalfwayTrainer), depth_to_L and    *)
(* compose_inputs.                                                         *)
(*                                                                         *)
(* Python values are modelled as follows.                                  *)
(*   - None is the string "None"; a dict is a function whose DOMAIN is its *)
(*     set of keys; a raised exception is the field `raised` of a result.  *)
(*   - A batch tensor is a sequence over the batch index.  A depth map or  *)
(*     a mask of one sample is a function from pixels 1..NPix; a mask      *)
(*     holds 0 (background) or 1 (object).  A point is a triple, a point   *)
(*     cloud a sequence of points, a world matrix a 3x4 matrix [R | t]     *)
(*     given as a sequence of 3 rows of 4 numbers.                         *)
(*   - A value that is either a tensor or a dict carries its Python type   *)
(*     in the field `type`.                                                *)
(*   - torch.rand draws alpha from [0, 1): here alpha = a / AlphaDen for   *)
(*     a in 0..AlphaDen-1, and depth values are multiples of AlphaDen so   *)
(*     that the mix  pr * alpha + gt * (1 - alpha)  is exact.              *)
(***************************************************************************)
EXTENDS Integers, Sequences, FiniteSets, TLC

VARIABLES
    pc,        \* position of the caller: "start" before the call, "done" after
    trainer,   \* the trainer object (with its model and optimizer), or None
    data,      \* the batch dictionary handed to the operation
    kwargs,    \* the other arguments of the call, and the draws of the run
    ret        \* what the last call returned or raised

vars == <<pc, trainer, data, kwargs, ret>>

None == "None"

\* No trainer object, and nothing returned yet
NoTrainer == [cls |-> None]
NoReturn == [op |-> None, raised |-> None]

(***************************************************************************)
(* Bounds of the model.                                                    *)
(***************************************************************************)
NPix == 2          \* pixels of a depth map
AlphaDen == 2      \* alpha is drawn from {0, 1/AlphaDen, ..}
MaxCoord == 1      \* point coordinates are 0..MaxCoord
MaxScale == 2      \* third component of the translation is 1..MaxScale

Pixels == 1..NPix
DepthVals == {AlphaDen * k : k \in {1, 2}}
DepthMaps == [Pixels -> DepthVals]
Masks == [Pixels -> {0, 1}]
Alphas == 0..(AlphaDen - 1)

(***************************************************************************)
(* Python helpers.                                                         *)
(***************************************************************************)
\* dict.get(key): the value, or None when the key is absent
Get(d, key) == IF key \in DOMAIN d THEN d[key] ELSE None

Tensor(x) == [type |-> "Tensor", val |-> x]
Dict(d) == [type |-> "dict", val |-> d]

(***************************************************************************)
(* background_setting(depth_maps, gt_masks, v=0.) of onet_depth.models:    *)
(* every caller discards its result, it writes v into the pixels of        *)
(* depth_maps outside the mask, in place.  The operator gives the content  *)
(* of depth_maps after the call.                                           *)
(***************************************************************************)
background_setting(depth_maps, gt_masks, v) ==
    [b \in DOMAIN depth_maps |->
        [p \in DOMAIN depth_maps[b] |->
            IF gt_masks[b][p] = 1 THEN depth_maps[b][p] ELSE v]]

\* pr_depth_maps * alpha + gt_depth_maps * (1.0 - alpha), alpha of shape (batch,1,1,1)
mix_depth_maps(pr_depth_maps, gt_depth_maps, alpha) ==
    [b \in DOMAIN pr_depth_maps |->
        [p \in DOMAIN pr_depth_maps[b] |->
            (pr_depth_maps[b][p] * alpha[b]
               + gt_depth_maps[b][p] * (AlphaDen - alpha[b])) \div AlphaDen]]


\* tensor.byte(): the mask as unsigned bytes (truncation of each entry)
byte(gt_mask) ==
    [b \in DOMAIN gt_mask |->
        [p \in DOMAIN gt_mask[b] |-> IF gt_mask[b][p] >= 1 THEN 1 ELSE 0]]

\* tensor.to(device): the same tensor when it already lives on `device` (the
\* batch comes from the loader on the cpu), a copy otherwise
SameTensor(device) == device = "cpu"

\* The batch after in-place writes to tensors that .to(device) did not copy
AfterWrites(d, device, writes) ==
    IF SameTensor(device)
    THEN [k \in DOMAIN d |-> IF k \in DOMAIN writes THEN writes[k] ELSE d[k]]
    ELSE d

(***************************************************************************)
(* im2mesh.common helpers used by compose_inputs.                          *)
(***************************************************************************)
\* get_camera_args(data, 'points.loc', 'points.scale', device): the camera
\* matrices of the batch
get_camera_args(d) ==
    [Rt |-> <<"Rt", d["inputs.world_mat"], d["points.loc"], d["points.scale"]>>,
     K  |-> <<"K", d["inputs.camera_mat"]>>]

\* get_world_mat(data, transpose=None, device): the batch of 3x4 world matrices
get_world_mat(d) == d["inputs.world_mat"]

\* points @ M for one point (a row vector) and a 3x3 matrix M
RowTimes(pt, M) == [j \in 1..3 |-> pt[1] * M[1][j] + pt[2] * M[2][j] + pt[3] * M[3][j]]

\* M.transpose(1, 2) of one 3x3 matrix
Transpose(M) == [i \in 1..3 |-> [j \in 1..3 |-> M[j][i]]]

\* transform_points(points, transform) for a batch of 3x3 transforms:
\* points @ transform.transpose(1, 2)
transform_points(points, transform) ==
    [b \in DOMAIN points |->
        [n \in DOMAIN points[b] |-> RowTimes(points[b][n], Transpose(transform[b]))]]

\* world_mat[:, :, :3]
RotationPart(world_mat) ==
    [b \in DOMAIN world_mat |-> [i \in 1..3 |-> [j \in 1..3 |-> world_mat[b][i][j]]]]

\* world_mat[:, :, 3:], a batch of 3x1 columns
TranslationPart(world_mat) ==
    [b \in DOMAIN world_mat |-> [i \in 1..3 |-> <<world_mat[b][i][4]>>]]

\* R.transpose(1, 2)
BatchTranspose(R) == [b \in DOMAIN R |-> Transpose(R[b])]

\* encoder_inputs[:, :, [1,0,2]] (indices are 0-based in the source)
SwapXY(points) ==
    [b \in DOMAIN points |->
        [n \in DOMAIN points[b] |-> <<points[b][n][2], points[b][n][1], points[b][n][3]>>]]

\* encoder_inputs * t[:,2:,:] : t[:,2:,:] has shape (batch,1,1) and broadcasts
ScaleByT(points, t) ==
    [b \in DOMAIN points |->
        [n \in DOMAIN points[b] |-> [j \in 1..3 |-> points[b][n][j] * t[b][3][1]]]]

(***************************************************************************)
(* compose_inputs                                                          *)
(***************************************************************************)
EmptyDict == <<>>

Returned(encoder_inputs, raw_data, reads, d) ==
    [raised |-> None, encoder_inputs |-> encoder_inputs, raw_data |-> raw_data,
     reads |-> reads, data |-> d]

Raised(exc, reads, d) ==
    [raised |-> exc, encoder_inputs |-> None, raw_data |-> None,
     reads |-> reads, data |-> d]

\* The depth maps handed to the encoder, with the keys read and the tensors
\* written in place on the way
depth_pred_depth_maps_unmasked_gt(d, kw, gt_mask) ==
    IF kw.use_gt_depth_map
    THEN LET gt_depth_maps == background_setting(d["inputs.depth"], gt_mask, 0) IN
         [maps |-> gt_depth_maps, reads |-> {"inputs.depth"},
          writes |-> ("inputs.depth" :> gt_depth_maps)]
    ELSE LET pr_depth_maps == background_setting(d["inputs.depth_pred"], gt_mask, 0) IN
         IF kw.depth_map_mix /\ kw.mode = "train"
         THEN LET gt_depth_maps == d["inputs.depth"] IN
              [maps |-> mix_depth_maps(pr_depth_maps, gt_depth_maps, kw.alpha),
               reads |-> {"inputs.depth_pred", "inputs.depth"},
               writes |-> ("inputs.depth_pred" :> pr_depth_maps)]
         ELSE [maps |-> pr_depth_maps, reads |-> {"inputs.depth_pred"},
               writes |-> ("inputs.depth_pred" :> pr_depth_maps)]

depth_pred_depth_maps(d, kw, gt_mask) ==
    IF kw.use_gt_depth_map
    THEN LET gt_depth_maps == background_setting(d["inputs.depth"], gt_mask, 0) IN
         [maps |-> gt_depth_maps, reads |-> {"inputs.depth"},
          writes |-> ("inputs.depth" :> gt_depth_maps)]
    ELSE LET pr_depth_maps == background_setting(d["inputs.depth_pred"], gt_mask, 0) IN
         IF kw.depth_map_mix /\ kw.mode = "train"
         THEN LET gt_depth_maps == background_setting(d["inputs.depth"], gt_mask, 0) IN
              [maps |-> mix_depth_maps(pr_depth_maps, gt_depth_maps, kw.alpha),
               reads |-> {"inputs.depth_pred", "inputs.depth"},
               writes |-> ("inputs.depth_pred" :> pr_depth_maps)
                            @@ ("inputs.depth" :> gt_depth_maps)]
         ELSE [maps |-> pr_depth_maps, reads |-> {"inputs.depth_pred"},
               writes |-> ("inputs.depth_pred" :> pr_depth_maps)]

\* with_img and local: what wraps the depth maps, and what raw_data gets
depth_pred_wrap_no_camera(d, kw, gt_mask, maps) ==
    LET plain == IF kw.with_img
                 THEN Dict(("img" :> d["inputs"]) @@ ("depth" :> Tensor(maps)))
                 ELSE Tensor(maps)
    IN  [encoder_inputs |-> IF kw.local THEN Dict(None :> plain) ELSE plain,
         raw_data |-> ("gt_mask" :> gt_mask),
         reads |-> IF kw.with_img THEN {"inputs"} ELSE {}]

depth_pred_wrap(d, kw, gt_mask, maps) ==
    LET plain == IF kw.with_img
                 THEN Dict(("img" :> d["inputs"]) @@ ("depth" :> Tensor(maps)))
                 ELSE Tensor(maps)
        camera_args == get_camera_args(d)
    IN  IF kw.local
        THEN [encoder_inputs |->
                  Dict((None :> plain) @@ ("world_mat" :> camera_args.Rt)
                                       @@ ("camera_mat" :> camera_args.K)),
              raw_data |-> ("gt_mask" :> gt_mask) @@ ("world_mat" :> camera_args.Rt)
                                                  @@ ("camera_mat" :> camera_args.K),
              reads |-> (IF kw.with_img THEN {"inputs"} ELSE {})
                            \cup {"inputs.world_mat", "inputs.camera_mat",
                                  "points.loc", "points.scale"}]
        ELSE [encoder_inputs |-> plain,
              raw_data |-> ("gt_mask" :> gt_mask),
              reads |-> IF kw.with_img THEN {"inputs"} ELSE {}]

\* input_type == 'depth_pred'
compose_depth_pred(d, kw) ==
    LET gt_mask == byte(d["inputs.mask"])
        dm == depth_pred_depth_maps(d, kw, gt_mask)
        w == depth_pred_wrap(d, kw, gt_mask, dm.maps)
    IN  Returned(w.encoder_inputs, w.raw_data,
                 {"inputs.mask"} \cup dm.reads \cup w.reads,
                 AfterWrites(d, kw.device, dm.writes))

\* The coordinate-frame transfer of the point cloud
depth_pointcloud_transfer_view_unswapped(d, kw) ==
    LET encoder_inputs == d["inputs"]
        transfer == kw.depth_pointcloud_transfer
        world_mat == get_world_mat(d)
        R == RotationPart(world_mat)
        t == TranslationPart(world_mat)
    IN  IF transfer = None
        THEN [raised |-> None, points |-> encoder_inputs, raw_data |-> EmptyDict,
              reads |-> {"inputs"}]
        ELSE IF transfer \in {"world", "world_scale_model"}
        THEN LET rotated == transform_points(SwapXY(encoder_inputs), BatchTranspose(R)) IN
             [raised |-> None,
              points |-> IF transfer = "world_scale_model"
                         THEN ScaleByT(rotated, t) ELSE rotated,
              raw_data |-> ("world_mat" :> world_mat),
              reads |-> {"inputs", "inputs.world_mat"}]
        ELSE IF transfer \in {"view", "view_scale_model"}
        THEN IF transfer = "view_scale_model"
             THEN [raised |-> None, points |-> ScaleByT(SwapXY(encoder_inputs), t),
                   raw_data |-> ("world_mat" :> world_mat),
                   reads |-> {"inputs", "inputs.world_mat"}]
             ELSE [raised |-> None, points |-> encoder_inputs,
                   raw_data |-> EmptyDict, reads |-> {"inputs"}]
        ELSE [raised |-> "NotImplementedError", points |-> None, raw_data |-> None,
              reads |-> {"inputs"}]

depth_pointcloud_transfer(d, kw) ==
    LET encoder_inputs == d["inputs"]
        transfer == kw.depth_pointcloud_transfer
        world_mat == get_world_mat(d)
        R == RotationPart(world_mat)
        t == TranslationPart(world_mat)
    IN  IF transfer = None
        THEN [raised |-> None, points |-> encoder_inputs, raw_data |-> EmptyDict,
              reads |-> {"inputs"}]
        ELSE IF transfer \in {"world", "world_scale_model"}
        THEN LET rotated == transform_points(SwapXY(encoder_inputs), BatchTranspose(R)) IN
             [raised |-> None,
              points |-> IF transfer = "world_scale_model"
                         THEN ScaleByT(rotated, t) ELSE rotated,
              raw_data |-> ("world_mat" :> world_mat),
              reads |-> {"inputs", "inputs.world_mat"}]
        ELSE IF transfer \in {"view", "view_scale_model"}
        THEN IF transfer = "view_scale_model"
             THEN [raised |-> None, points |-> ScaleByT(SwapXY(encoder_inputs), t),
                   raw_data |-> ("world_mat" :> world_mat),
                   reads |-> {"inputs", "inputs.world_mat"}]
             ELSE [raised |-> None, points |-> SwapXY(encoder_inputs),
                   raw_data |-> EmptyDict, reads |-> {"inputs"}]
        ELSE [raised |-> "NotImplementedError", points |-> None, raw_data |-> None,
              reads |-> {"inputs"}]

\* input_type == 'depth_pointcloud'
compose_depth_pointcloud(d, kw) ==
    LET tr == depth_pointcloud_transfer(d, kw) IN
    IF tr.raised # None
    THEN Raised(tr.raised, tr.reads, d)
    ELSE Returned(IF kw.local THEN Dict(None :> Tensor(tr.points)) ELSE Tensor(tr.points),
                  tr.raw_data, tr.reads, d)

compose_inputs_no_checks(d, kw) ==
    IF kw.input_type = "depth_pointcloud"
    THEN compose_depth_pointcloud(d, kw)
    ELSE compose_depth_pred(d, kw)

compose_inputs(d, kw) ==
    IF kw.mode \notin {"train", "val", "test"}
    THEN Raised("AssertionError", {}, d)
    ELSE IF kw.input_type = "depth_pred"
    THEN compose_depth_pred(d, kw)
    ELSE IF kw.input_type = "depth_pointcloud"
    THEN compose_depth_pointcloud(d, kw)
    ELSE Raised("NotImplementedError", {}, d)

(***************************************************************************)
(* The calls of compose_inputs that are checked: every configuration on a  *)
(* small batch, every depth batch under input_type 'depth_pred', every     *)
(* point cloud under input_type 'depth_pointcloud'.                        *)
(***************************************************************************)
SupportedModes == {"train", "val", "test"}
Modes == SupportedModes \cup {"predict"}
InputTypes == {"depth_pred", "depth_pointcloud", "img"}
NamedTransfers == {"world", "world_scale_model", "view", "view_scale_model"}
Transfers == NamedTransfers \cup {None, "camera"}
Devices == {"cpu", "cuda"}

Identity3 == <<<<1, 0, 0>>, <<0, 1, 0>>, <<0, 0, 1>>>>
RotZ == <<<<0, -1, 0>>, <<1, 0, 0>>, <<0, 0, 1>>>>
RotX == <<<<1, 0, 0>>, <<0, 0, -1>>, <<0, 1, 0>>>>
Rotations == {Identity3, RotZ, RotX}

\* The 3x4 matrix [R | t] with t = (5, 7, tz)
WorldMat(R, tz) == <<R[1] \o <<5>>, R[2] \o <<7>>, R[3] \o <<tz>>>>
WorldMats == {WorldMat(R, tz) : R \in Rotations, tz \in 1..MaxScale}

Points == [1..3 -> 0..MaxCoord]
PointClouds == {<<p, q>> : p \in Points, q \in Points}

DepthBatch(mask, gt, pr) ==
    ("inputs" :> "img") @@ ("inputs.mask" :> <<mask>>) @@ ("inputs.depth" :> <<gt>>)
      @@ ("inputs.depth_pred" :> <<pr>>) @@ ("inputs.world_mat" :> <<WorldMat(RotZ, 1)>>)
      @@ ("inputs.camera_mat" :> "camera_mat") @@ ("points.loc" :> "loc")
      @@ ("points.scale" :> "scale") @@ ("points" :> "points")
      @@ ("points.occ" :> "occ") @@ ("points_iou" :> "points_iou")
      @@ ("points_iou.occ" :> "occ_iou")

PointCloudBatch(cloud, world_mat) ==
    ("inputs" :> <<cloud>>) @@ ("inputs.world_mat" :> <<world_mat>>)
      @@ ("inputs.camera_mat" :> "camera_mat") @@ ("points.loc" :> "loc")
      @@ ("points.scale" :> "scale") @@ ("points" :> "points")
      @@ ("points.occ" :> "occ") @@ ("points_iou" :> "points_iou")
      @@ ("points_iou.occ" :> "occ_iou")

DepthBatches == {DepthBatch(m, gt, pr) : m \in Masks, gt \in DepthMaps, pr \in DepthMaps}
PointCloudBatches == {PointCloudBatch(c, w) : c \in PointClouds, w \in WorldMats}

SmallDepthBatch ==
    DepthBatch([p \in Pixels |-> IF p = 1 THEN 1 ELSE 0],
               [p \in Pixels |-> AlphaDen], [p \in Pixels |-> 2 * AlphaDen])
SmallPointCloudBatch ==
    PointCloudBatch(<<<<1, 0, 0>>, <<0, 1, 1>>>>, WorldMat(RotX, MaxScale))

InitCompose ==
    /\ pc = "start"
    /\ trainer = NoTrainer
    /\ ret = NoReturn
    /\ \/ /\ kwargs \in [mode : Modes, device : Devices, input_type : InputTypes,
                         use_gt_depth_map : BOOLEAN, depth_map_mix : BOOLEAN,
                         with_img : BOOLEAN, depth_pointcloud_transfer : Transfers,
                         local : BOOLEAN, alpha : {<<1>>}]
          /\ data = IF kwargs.input_type = "depth_pointcloud"
                    THEN SmallPointCloudBatch ELSE SmallDepthBatch
       \/ /\ kwargs \in [mode : SupportedModes, device : Devices,
                         input_type : {"depth_pred"},
                         use_gt_depth_map : BOOLEAN, depth_map_mix : BOOLEAN,
                         with_img : BOOLEAN, depth_pointcloud_transfer : {None},
                         local : BOOLEAN, alpha : {<<a>> : a \in Alphas}]
          /\ data \in DepthBatches
       \/ /\ kwargs \in [mode : SupportedModes, device : {"cpu"},
                         input_type : {"depth_pointcloud"},
                         use_gt_depth_map : {FALSE}, depth_map_mix : {FALSE},
                         with_img : {FALSE}, depth_pointcloud_transfer : Transfers,
                         local : BOOLEAN, alpha : {<<0>>}]
          /\ data \in PointCloudBatches

\* encoder_inputs, raw_data = compose_inputs(data, mode=.., device=.., ..)
ComposeInputsCall ==
    /\ pc = "start"
    /\ ret' = compose_inputs(data, kwargs)
    /\ pc' = "done"
    /\ UNCHANGED <<trainer, data, kwargs>>

NextCompose == ComposeInputsCall

SpecCompose == InitCompose /\ [][NextCompose]_vars

Called == pc = "done"
HasReturned == Called /\ ret.raised = None

\* The point cloud or depth maps inside encoder_inputs, whatever wraps them
Unlocal(e) == IF e.type = "dict" /\ None \in DOMAIN e.val THEN e.val[None] ELSE e
DepthOf(e) ==
    LET u == Unlocal(e) IN IF u.type = "dict" THEN u.val["depth"].val ELSE u.val

(***************************************************************************)
(* C1: with input_type 'depth_pred', whatever the other arguments, the     *)
(* depth maps in the returned encoder_inputs are 0 (background_setting's   *)
(* value) at every pixel outside the batch's gt_mask.                      *)
(***************************************************************************)
C1_DepthMapsMasked ==
    (HasReturned /\ kwargs.input_type = "depth_pred") =>
        \A b \in DOMAIN data["inputs.mask"] : \A p \in Pixels :
            data["inputs.mask"][b][p] = 0 => DepthOf(ret.encoder_inputs)[b][p] = 0

\* a mix of two depth maps, both non-zero in the background before the call
C1_Witness ==
    /\ HasReturned
    /\ kwargs.input_type = "depth_pred"
    /\ ~kwargs.use_gt_depth_map /\ kwargs.depth_map_mix /\ kwargs.mode = "train"
    /\ kwargs.with_img /\ kwargs.local
    /\ kwargs.alpha[1] = 1
    /\ data["inputs.mask"][1][1] = 0 /\ data["inputs.mask"][1][2] = 1
    /\ data["inputs.depth"][1][1] # 0 /\ data["inputs.depth_pred"][1][1] # 0
    /\ DepthOf(ret.encoder_inputs)[1][1] = 0
    /\ DepthOf(ret.encoder_inputs)[1][2] # 0

(***************************************************************************)
(* C6: compose_inputs raises for every unsupported configuration and       *)
(* returns only for supported ones.  An unsupported mode fails the         *)
(* assertion before any key of the batch is read; an input_type other than *)
(* 'depth_pred' and 'depth_pointcloud' raises NotImplementedError; with    *)
(* 'depth_pointcloud' a transfer that is neither None nor one of the four  *)
(* named ones raises NotImplementedError, and None returns the input       *)
(* point cloud as it is.                                                   *)
(***************************************************************************)
SupportedCall ==
    /\ kwargs.mode \in SupportedModes
    /\ \/ kwargs.input_type = "depth_pred"
       \/ /\ kwargs.input_type = "depth_pointcloud"
          /\ kwargs.depth_pointcloud_transfer \in NamedTransfers \cup {None}

C6_RejectsUnsupported ==
    Called =>
        /\ (ret.raised = None) <=> SupportedCall
        /\ kwargs.mode \notin SupportedModes =>
               ret.raised = "AssertionError" /\ ret.reads = {}
        /\ (kwargs.mode \in SupportedModes
              /\ kwargs.input_type \notin {"depth_pred", "depth_pointcloud"}) =>
               ret.raised = "NotImplementedError"
        /\ (kwargs.mode \in SupportedModes /\ kwargs.input_type = "depth_pointcloud"
              /\ kwargs.depth_pointcloud_transfer \notin NamedTransfers \cup {None}) =>
               ret.raised = "NotImplementedError"
        /\ (kwargs.mode \in SupportedModes /\ kwargs.input_type = "depth_pointcloud"
              /\ kwargs.depth_pointcloud_transfer = None) =>
               /\ ret.raised = None
               /\ Unlocal(ret.encoder_inputs).val = data["inputs"]

\* an unsupported mode with an otherwise supported configuration
C6_Witness ==
    /\ Called
    /\ kwargs.mode = "predict" /\ kwargs.input_type = "depth_pred"
    /\ ret.raised = "AssertionError"

(***************************************************************************)
(* C8: the structure of what compose_inputs returns follows from its       *)
(* flags.  'depth_pred': the depth maps alone without with_img and local,  *)
(* a dict {'img', 'depth'} with with_img, and with local a dict with keys  *)
(* None, 'world_mat', 'camera_mat' whose None entry is what was built      *)
(* before; raw_data has 'gt_mask' always and 'world_mat', 'camera_mat' iff *)
(* local.  'depth_pointcloud': local wraps the points as {None: points};   *)
(* raw_data has 'world_mat' iff the transfer is 'world',                   *)
(* 'world_scale_model' or 'view_scale_model', and never 'gt_mask'.         *)
(***************************************************************************)
PlainDepthPredShape(e) ==
    IF kwargs.with_img
    THEN e.type = "dict" /\ DOMAIN e.val = {"img", "depth"}
           /\ e.val["img"] = data["inputs"] /\ e.val["depth"].type = "Tensor"
    ELSE e.type = "Tensor"

C8_ReturnedStructure ==
    /\ (HasReturned /\ kwargs.input_type = "depth_pred") =>
          /\ IF kwargs.local
             THEN /\ ret.encoder_inputs.type = "dict"
                  /\ DOMAIN ret.encoder_inputs.val = {None, "world_mat", "camera_mat"}
                  /\ PlainDepthPredShape(ret.encoder_inputs.val[None])
             ELSE PlainDepthPredShape(ret.encoder_inputs)
          /\ "gt_mask" \in DOMAIN ret.raw_data
          /\ "world_mat" \in DOMAIN ret.raw_data <=> kwargs.local
          /\ "camera_mat" \in DOMAIN ret.raw_data <=> kwargs.local
    /\ (HasReturned /\ kwargs.input_type = "depth_pointcloud") =>
          /\ IF kwargs.local
             THEN /\ ret.encoder_inputs.type = "dict"
                  /\ DOMAIN ret.encoder_inputs.val = {None}
                  /\ ret.encoder_inputs.val[None].type = "Tensor"
             ELSE ret.encoder_inputs.type = "Tensor"
          /\ "world_mat" \in DOMAIN ret.raw_data <=>
                 kwargs.depth_pointcloud_transfer
                     \in {"world", "world_scale_model", "view_scale_model"}
          /\ "gt_mask" \notin DOMAIN ret.raw_data
          /\ "camera_mat" \notin DOMAIN ret.raw_data

\* img and depth wrapped for local features
C8_Witness ==
    /\ HasReturned
    /\ kwargs.input_type = "depth_pred" /\ kwargs.with_img /\ kwargs.local
    /\ DOMAIN ret.encoder_inputs.val[None].val = {"img", "depth"}
    /\ DOMAIN ret.raw_data = {"gt_mask", "world_mat", "camera_mat"}

(***************************************************************************)
(* C9: with input_type 'depth_pointcloud' every named transfer first swaps *)
(* the first two coordinates of each point; 'world' and                    *)
(* 'world_scale_model' then apply the transpose of the world matrix's      *)
(* rotation part; 'world_scale_model' and 'view_scale_model' last multiply *)
(* by the third component of its translation column; 'view' reads no world *)
(* matrix.                                                                 *)
(***************************************************************************)
ExpectedSwapped(P) == <<P[2], P[1], P[3]>>
\* (R^T q)_j = sum_i R[i][j] * q_i, with R the first three columns of W
ExpectedRotated(W, q) ==
    [j \in 1..3 |-> W[1][j] * q[1] + W[2][j] * q[2] + W[3][j] * q[3]]
ExpectedScaled(W, q) == [j \in 1..3 |-> q[j] * W[3][4]]

ExpectedPoint(transfer, W, P) ==
    CASE transfer = "view" -> ExpectedSwapped(P)
      [] transfer = "view_scale_model" -> ExpectedScaled(W, ExpectedSwapped(P))
      [] transfer = "world" -> ExpectedRotated(W, ExpectedSwapped(P))
      [] transfer = "world_scale_model" ->
             ExpectedScaled(W, ExpectedRotated(W, ExpectedSwapped(P)))

C9_TransferOrder ==
    (HasReturned /\ kwargs.input_type = "depth_pointcloud"
        /\ kwargs.depth_pointcloud_transfer \in NamedTransfers) =>
        /\ \A b \in DOMAIN data["inputs"] : \A n \in DOMAIN data["inputs"][b] :
               Unlocal(ret.encoder_inputs).val[b][n] =
                   ExpectedPoint(kwargs.depth_pointcloud_transfer,
                                 data["inputs.world_mat"][b], data["inputs"][b][n])
        /\ kwargs.depth_pointcloud_transfer = "view" =>
               "inputs.world_mat" \notin ret.reads

\* a rotation that does not commute with the swap, and a scale other than 1
C9_Witness ==
    /\ HasReturned
    /\ kwargs.input_type = "depth_pointcloud"
    /\ kwargs.depth_pointcloud_transfer = "world_scale_model"
    /\ data["inputs"][1][1] = <<1, 0, 0>>
    /\ data["inputs.world_mat"][1] = WorldMat(RotZ, 2)
    /\ Unlocal(ret.encoder_inputs).val[1][1] = <<2, 0, 0>>

(***************************************************************************)
(* The model (nn.Module) and the optimizer of a trainer.                   *)
(*                                                                         *)
(* The parameters are in two groups, those of model.depth_predictor and    *)
(* those of the occupancy network (encoder, decoder, latent encoder).  A   *)
(* group has a value, a requires_grad flag and a .grad that is None until  *)
(* a backward pass reaches the group.  What a forward pass computes is not *)
(* in the source: the loss terms and the gradient of a batch are drawn     *)
(* (`fwd`).                                                                *)
(***************************************************************************)
ParamMod == 3      \* parameter values are 0..ParamMod-1
MaxGrad == 2       \* the gradient of a batch is 1..MaxGrad
MaxSteps == 2      \* optimizer steps taken in a run
MaxTupleLen == 3   \* longest tuple an encoder returns
MaxReg == 2        \* feature_transform_reguliarzer's value is 1..MaxReg
RegWeightMilli == 1   \* the weight 0.001 of the regulariser, in thousandths

\* A parameter's .grad: None, or a tensor holding one number
NoGrad == <<>>
GradOf(v) == <<v>>

NewModel(has_depth_predictor, encoder) ==
    LET groups == IF has_depth_predictor
                  THEN {"depth_predictor", "occupancy"} ELSE {"occupancy"}
    IN  [training |-> TRUE,
         depth_predictor |-> IF has_depth_predictor THEN "depth_predictor" ELSE None,
         encoder |-> encoder,
         params |-> [g \in groups |-> 0],
         requires_grad |-> [g \in groups |-> TRUE],
         grad |-> [g \in groups |-> NoGrad]]

NewOptimizer == [steps |-> 0]

\* A handler in progress: the trainer so far and the calls made so far
Begin(tr) == [trainer |-> tr, calls |-> <<>>]

\* self.model.train()
model_train(s) ==
    [trainer |-> [s.trainer EXCEPT !.model.training = TRUE],
     calls |-> Append(s.calls, "model.train")]

\* self.model.eval()
model_eval(s) ==
    [trainer |-> [s.trainer EXCEPT !.model.training = FALSE],
     calls |-> Append(s.calls, "model.eval")]

\* self.optimizer.zero_grad(): every .grad that exists is zeroed
zero_grad(s) ==
    [trainer |-> [s.trainer EXCEPT !.model.grad =
                      [g \in DOMAIN @ |-> IF @[g] = NoGrad THEN NoGrad ELSE GradOf(0)]],
     calls |-> Append(s.calls, "optimizer.zero_grad")]

\* loss.backward(): the gradient g of this loss is added to the .grad of every
\* group in the loss's graph
backward(s, graph, g) ==
    [trainer |-> [s.trainer EXCEPT !.model.grad =
                      [k \in DOMAIN @ |->
                          IF k \in graph
                          THEN GradOf((IF @[k] = NoGrad THEN 0 ELSE @[k][1]) + g)
                          ELSE @[k]]],
     calls |-> Append(s.calls, "loss.backward")]

\* self.optimizer.step(): every group with a .grad moves against it
optimizer_step(s) ==
    [trainer |-> [s.trainer EXCEPT
                      !.model.params =
                          [k \in DOMAIN @ |->
                              IF s.trainer.model.grad[k] = NoGrad
                              THEN @[k]
                              ELSE (@[k] - s.trainer.model.grad[k][1]) % ParamMod],
                      !.optimizer.steps = @ + 1],
     calls |-> Append(s.calls, "optimizer.step")]

\* The parameter groups a loss computed from `used` reaches in a backward pass
Graph(model, used, grad_enabled) ==
    IF grad_enabled
    THEN {g \in used \cap DOMAIN model.params : model.requires_grad[g]}
    ELSE {}

RECURSIVE SumSeq(_)
SumSeq(q) == IF q = <<>> THEN 0 ELSE Head(q) + SumSeq(Tail(q))

\* tensor.mean() of a vector, in thousandths
MeanMilli(v) == (1000 * SumSeq(v)) \div Len(v)

\* tensor.sum(-1) of a matrix given as a sequence of rows
SumLast(m) == [b \in DOMAIN m |-> SumSeq(m[b])]

(***************************************************************************)
(* Constructors.  Each gives [raised, self]: the exception of a failed     *)
(* assertion, or the new trainer.                                          *)
(***************************************************************************)
Constructed(tr) == [raised |-> None, self |-> tr]
NotConstructed(exc) == [raised |-> exc, self |-> NoTrainer]

Phase1Trainer_init(model, kw) ==
    Constructed([cls |-> "Phase1Trainer", model |-> model, optimizer |-> NewOptimizer,
                 device |-> kw.device, pred_minmax |-> kw.pred_minmax])

Phase2Trainer_init_no_freeze(model, kw) ==
    Constructed([cls |-> "Phase2Trainer", model |-> model,
                 optimizer |-> NewOptimizer, device |-> kw.device,
                 training_detach |-> kw.training_detach,
                 depth_map_mix |-> kw.depth_map_mix])

Phase2Trainer_init(model, kw) ==
    Constructed([cls |-> "Phase2Trainer",
                 model |-> IF kw.training_detach /\ model.depth_predictor # None
                           THEN [model EXCEPT !.requires_grad["depth_predictor"] = FALSE]
                           ELSE model,
                 optimizer |-> NewOptimizer, device |-> kw.device,
                 training_detach |-> kw.training_detach,
                 depth_map_mix |-> kw.depth_map_mix])

Phase2HalfwayTrainer_init_transfer_unchecked(model, kw) ==
    IF ~(kw.input_type = "depth_pred" \/ kw.input_type = "depth_pointcloud")
    THEN NotConstructed("AssertionError")
    ELSE IF kw.input_type = "depth_pointcloud"
            /\ kw.depth_pointcloud_transfer \notin
                   {"world", "world_scale_model", "view", "view_scale_model"}
    THEN NotConstructed("AssertionError")
    ELSE Constructed([cls |-> "Phase2HalfwayTrainer", model |-> model,
                      optimizer |-> NewOptimizer, device |-> kw.device,
                      input_type |-> kw.input_type,
                      use_gt_depth_map |-> kw.use_gt_depth_map,
                      depth_map_mix |-> kw.depth_map_mix, with_img |-> kw.with_img,
                      depth_pointcloud_transfer |-> kw.depth_pointcloud_transfer,
                      local |-> kw.local])

Phase2HalfwayTrainer_init(model, kw) ==
    IF ~(kw.input_type = "depth_pred" \/ kw.input_type = "depth_pointcloud")
    THEN NotConstructed("AssertionError")
    ELSE IF kw.depth_pointcloud_transfer \notin
                {"world", "world_scale_model", "view", "view_scale_model"}
    THEN NotConstructed("AssertionError")
    ELSE Constructed([cls |-> "Phase2HalfwayTrainer", model |-> model,
                      optimizer |-> NewOptimizer, device |-> kw.device,
                      input_type |-> kw.input_type,
                      use_gt_depth_map |-> kw.use_gt_depth_map,
                      depth_map_mix |-> kw.depth_map_mix, with_img |-> kw.with_img,
                      depth_pointcloud_transfer |-> kw.depth_pointcloud_transfer,
                      local |-> kw.local])

(***************************************************************************)
(* compute_loss.  A loss is a tensor with a value (in thousandths) and the *)
(* parameter groups its graph reaches, or, in Phase1Trainer, the Python    *)
(* int 0 it starts from.                                                   *)
(***************************************************************************)
LossTensor(value, graph) == [type |-> "Tensor", value |-> value, graph |-> graph]
LossInt(value) == [type |-> "int", value |-> value, graph |-> {}]

\* gt_mask.sum()
MaskPixCount(gt_mask) ==
    SumSeq([b \in DOMAIN gt_mask |-> SumSeq([p \in Pixels |-> gt_mask[b][p]])])

Phase1Trainer_compute_loss(tr, d, fwd, grad_enabled) ==
    LET mask_pix_count == MaskPixCount(d["inputs.mask"])
        graph == Graph(tr.model, {"depth_predictor"}, grad_enabled)
        object_loss == IF mask_pix_count # 0
                       THEN LossTensor(fwd.mse, graph) ELSE LossInt(0)
        loss == IF tr.pred_minmax
                THEN LossTensor(object_loss.value + fwd.minmax, graph)
                ELSE object_loss
    IN  [raised |-> None, loss |-> loss, data |-> d]

\* kl.mean() + loss_i.sum(-1).mean()
ElboLoss(fwd) == MeanMilli(fwd.kl) + MeanMilli(SumLast(fwd.loss_i))

Phase2Trainer_compute_loss(tr, d, fwd, grad_enabled) ==
    LET gt_mask == byte(d["inputs.mask"])
        \* with torch.no_grad() when training_detach
        predict_grad == grad_enabled /\ ~tr.training_detach
        pr_depth_maps == background_setting(fwd.pr_depth_maps, gt_mask, 0)
        gt_depth_maps == background_setting(d["inputs.depth"], gt_mask, 0)
        graph == Graph(tr.model, {"occupancy"}, grad_enabled)
                   \cup Graph(tr.model, {"depth_predictor"}, predict_grad)
    IN  [raised |-> None,
         loss |-> LossTensor(ElboLoss(fwd), graph),
         predict_grad |-> predict_grad,
         encoder_inputs |-> IF tr.depth_map_mix
                            THEN mix_depth_maps(pr_depth_maps, gt_depth_maps, fwd.alpha)
                            ELSE pr_depth_maps,
         data |-> IF tr.depth_map_mix
                  THEN AfterWrites(d, tr.device, "inputs.depth" :> gt_depth_maps)
                  ELSE d]

\* The arguments Phase2HalfwayTrainer hands to compose_inputs
ComposeKwargs(tr, mode, alpha) ==
    [mode |-> mode, device |-> tr.device, input_type |-> tr.input_type,
     use_gt_depth_map |-> tr.use_gt_depth_map, depth_map_mix |-> tr.depth_map_mix,
     with_img |-> tr.with_img,
     depth_pointcloud_transfer |-> tr.depth_pointcloud_transfer,
     local |-> tr.local, alpha |-> alpha]

IsTuple(c) == c.type = "tuple"
IsPointNet(encoder) == encoder \in {"PointNetEncoder", "PointNetResEncoder"}

Phase2HalfwayTrainer_compute_loss_keep_tuple(tr, d, fwd, grad_enabled) ==
    LET composed == compose_inputs(d, ComposeKwargs(tr, "train", fwd.alpha))
        c == fwd.c
        graph == Graph(tr.model, {"occupancy"}, grad_enabled)
        regularised == IsTuple(c) /\ IsPointNet(tr.model.encoder)
        kl_loss == MeanMilli(fwd.kl)
        loss == IF regularised THEN kl_loss + RegWeightMilli * fwd.reg ELSE kl_loss
    IN  IF composed.raised # None
        THEN [raised |-> composed.raised, data |-> composed.data]
        ELSE [raised |-> None,
              loss |-> LossTensor(loss + MeanMilli(SumLast(fwd.loss_i)), graph),
              encoder_inputs |-> composed.encoder_inputs,
              regularised |-> regularised,
              decoder_c |-> c,
              data |-> composed.data]

Phase2HalfwayTrainer_compute_loss(tr, d, fwd, grad_enabled) ==
    LET composed == compose_inputs(d, ComposeKwargs(tr, "train", fwd.alpha))
        c == fwd.c
        graph == Graph(tr.model, {"occupancy"}, grad_enabled)
        regularised == IsTuple(c) /\ IsPointNet(tr.model.encoder)
        kl_loss == MeanMilli(fwd.kl)
        loss == IF regularised THEN kl_loss + RegWeightMilli * fwd.reg ELSE kl_loss
    IN  IF composed.raised # None
        THEN [raised |-> composed.raised, data |-> composed.data]
        ELSE IF IsTuple(c) /\ tr.local /\ Len(c.val) < 2
        THEN [raised |-> "IndexError", data |-> composed.data]
        ELSE [raised |-> None,
              loss |-> LossTensor(loss + MeanMilli(SumLast(fwd.loss_i)), graph),
              encoder_inputs |-> composed.encoder_inputs,
              regularised |-> regularised,
              decoder_c |-> IF IsTuple(c)
                            THEN IF tr.local
                                 THEN [type |-> "tuple", val |-> <<c.val[1], c.val[2]>>]
                                 ELSE [type |-> "Tensor", val |-> c.val[1]]
                            ELSE c,
              data |-> composed.data]

compute_loss(tr, d, fwd, grad_enabled) ==
    CASE tr.cls = "Phase1Trainer" -> Phase1Trainer_compute_loss(tr, d, fwd, grad_enabled)
      [] tr.cls = "Phase2Trainer" -> Phase2Trainer_compute_loss(tr, d, fwd, grad_enabled)
      [] tr.cls = "Phase2HalfwayTrainer" ->
             Phase2HalfwayTrainer_compute_loss(tr, d, fwd, grad_enabled)

(***************************************************************************)
(* train_step and eval_step.  Each gives the trainer and the batch after   *)
(* the call and what the call returned: [op, raised, calls, value, loss].  *)
(***************************************************************************)
StepResult(s, d, op, raised, value, loss) ==
    [trainer |-> s.trainer, data |-> d,
     ret |-> [op |-> op, raised |-> raised, calls |-> s.calls, value |-> value,
              loss |-> loss]]

Logged(s, name) == [s EXCEPT !.calls = Append(@, name)]

\* The body shared, line for line, by the three classes' train_step
train_step(tr, d, fwd) ==
    LET s1 == model_train(Begin(tr))
        s2 == zero_grad(s1)
        l == compute_loss(s2.trainer, d, fwd, TRUE)
        s3 == Logged(s2, "compute_loss")
    IN  IF l.raised # None
        THEN StepResult(s3, l.data, "train_step", l.raised, None, None)
        ELSE IF l.loss.type # "Tensor"
        \* loss.backward() on the int 0
        THEN StepResult(s3, l.data, "train_step", "AttributeError", None, l)
        ELSE LET s4 == backward(s3, l.loss.graph, fwd.grad)
                 s5 == optimizer_step(s4)
             IN  StepResult(s5, l.data, "train_step", None, l.loss.value, l)

Phase1Trainer_train_step(tr, d, fwd) == train_step(tr, d, fwd)
Phase2Trainer_train_step(tr, d, fwd) == train_step(tr, d, fwd)
Phase2HalfwayTrainer_train_step(tr, d, fwd) == train_step(tr, d, fwd)

Phase1Trainer_eval_step(tr, d, fwd) ==
    LET s1 == model_eval(Begin(tr))
        \* with torch.no_grad()
        l == compute_loss(s1.trainer, d, fwd, FALSE)
        s2 == Logged(s1, "compute_loss")
    IN  IF l.loss.type # "Tensor"
        \* loss.item() on the int 0
        THEN StepResult(s2, l.data, "eval_step", "AttributeError", None, l)
        ELSE StepResult(s2, l.data, "eval_step", None, "eval_loss" :> l.loss.value, l)

\* compute_elbo / compute_elbo_halfway of the model: elbo = -rec_error - kl
compute_elbo(fwd) ==
    [elbo |-> [b \in DOMAIN fwd.kl |-> (0 - fwd.rec_error[b]) - fwd.kl[b]],
     rec_error |-> fwd.rec_error, kl |-> fwd.kl]

\* The entries of eval_dict shared by Phase2Trainer and Phase2HalfwayTrainer
EvalDict(d, fwd) ==
    LET e == compute_elbo(fwd)
        voxels_occ == Get(d, "voxels")
        eval_dict == ("loss" :> 0 - MeanMilli(e.elbo))
                       @@ ("rec_error" :> MeanMilli(e.rec_error))
                       @@ ("kl" :> MeanMilli(e.kl)) @@ ("iou" :> fwd.iou)
    IN  IF voxels_occ # None
        THEN eval_dict @@ ("iou_voxels" :> fwd.iou_voxels)
        ELSE eval_dict

Phase2Trainer_eval_step(tr, d, fwd) ==
    LET s1 == model_eval(Begin(tr))
    IN  StepResult(s1, d, "eval_step", None, EvalDict(d, fwd), None)

Phase2HalfwayTrainer_eval_step(tr, d, fwd) ==
    LET s1 == model_eval(Begin(tr))
        composed == compose_inputs(d, ComposeKwargs(tr, "val", fwd.alpha))
    IN  IF composed.raised # None
        THEN StepResult(s1, composed.data, "eval_step", composed.raised, None, None)
        ELSE StepResult(s1, composed.data, "eval_step", None,
                        EvalDict(composed.data, fwd), None)

(***************************************************************************)
(* The trainers' runs: a trainer is constructed, then train_step and       *)
(* eval_step are called in any order, on any batch.  A call that raises    *)
(* ends the run.                                                           *)
(***************************************************************************)
Encoders == {"PointNetEncoder", "PointNetResEncoder", "Resnet18"}

DefaultKwargs ==
    [cls |-> None, has_depth_predictor |-> TRUE, encoder |-> "Resnet18",
     device |-> "cpu", pred_minmax |-> FALSE, training_detach |-> TRUE,
     input_type |-> "depth_pred", use_gt_depth_map |-> FALSE,
     depth_map_mix |-> FALSE, with_img |-> FALSE,
     depth_pointcloud_transfer |-> "view", local |-> FALSE]

Phase1Kwargs ==
    {[DefaultKwargs EXCEPT !.cls = "Phase1Trainer", !.pred_minmax = m] :
        m \in BOOLEAN}

Phase2Kwargs ==
    {[DefaultKwargs EXCEPT !.cls = "Phase2Trainer", !.training_detach = t,
                           !.depth_map_mix = m, !.device = dev,
                           !.has_depth_predictor = h] :
        t \in BOOLEAN, m \in BOOLEAN, dev \in Devices, h \in BOOLEAN}

Phase2HalfwayKwargs ==
    {[DefaultKwargs EXCEPT !.cls = "Phase2HalfwayTrainer",
                           !.has_depth_predictor = FALSE,
                           !.encoder = e, !.input_type = it,
                           !.depth_pointcloud_transfer = tf,
                           !.use_gt_depth_map = f[1], !.depth_map_mix = f[2],
                           !.with_img = f[3], !.local = f[4]] :
        e \in {"PointNetEncoder"}, it \in InputTypes \cup {None},
        tf \in Transfers \cup {"world_scale"}, f \in [1..4 -> BOOLEAN]}

InitTrain ==
    /\ pc = "start"
    /\ trainer = NoTrainer
    /\ data = None
    /\ ret = NoReturn
    /\ \E kw \in Phase1Kwargs \cup Phase2Kwargs \cup Phase2HalfwayKwargs :
           kwargs = [ctor |-> kw,
                     model |-> NewModel(kw.has_depth_predictor, kw.encoder),
                     fwd |-> None]

New(r) ==
    /\ trainer' = r.self
    /\ ret' = [op |-> "__init__", raised |-> r.raised, calls |-> <<>>,
               value |-> None, loss |-> None]
    /\ pc' = IF r.raised = None THEN "idle" ELSE "raised"
    /\ UNCHANGED <<data, kwargs>>

Phase1TrainerNew ==
    /\ pc = "start" /\ kwargs.ctor.cls = "Phase1Trainer"
    /\ New(Phase1Trainer_init(kwargs.model, kwargs.ctor))

Phase2TrainerNew ==
    /\ pc = "start" /\ kwargs.ctor.cls = "Phase2Trainer"
    /\ New(Phase2Trainer_init(kwargs.model, kwargs.ctor))

Phase2HalfwayTrainerNew ==
    /\ pc = "start" /\ kwargs.ctor.cls = "Phase2HalfwayTrainer"
    /\ New(Phase2HalfwayTrainer_init(kwargs.model, kwargs.ctor))

\* The batches a trainer is run on: a depth batch with object pixels, one
\* without, or the point cloud batch; each with and without a 'voxels' entry
WithVoxels(d) == d @@ ("voxels" :> "voxels")

BackgroundOnlyDepthBatch ==
    DepthBatch([p \in Pixels |-> 0],
               [p \in Pixels |-> AlphaDen], [p \in Pixels |-> 2 * AlphaDen])

TrainBatches(tr) ==
    LET plain == IF tr.cls = "Phase2HalfwayTrainer"
                 THEN IF tr.input_type = "depth_pointcloud"
                      THEN {SmallPointCloudBatch} ELSE {SmallDepthBatch}
                 ELSE {SmallDepthBatch, BackgroundOnlyDepthBatch}
    IN  plain \cup {WithVoxels(d) : d \in plain}

\* What the forward pass of a step yields
TrainFwds(tr) ==
    [grad : 1..MaxGrad, mse : {250}, minmax : {500},
     pr_depth_maps : {<<[p \in Pixels |-> 2 * AlphaDen]>>}, alpha : {<<1>>},
     c : IF tr.cls = "Phase2HalfwayTrainer"
         THEN {[type |-> "Tensor", val |-> 1], [type |-> "tuple", val |-> <<1, 2, 3>>]}
         ELSE {[type |-> "Tensor", val |-> 1]},
     kl : {<<0, 2>>}, loss_i : {<<<<1, 0>>, <<1, 1>>>>}, reg : {1},
     rec_error : {<<2, 4>>}, iou : {500}, iou_voxels : {250}]

Step(r, fwd) ==
    /\ trainer' = r.trainer
    /\ data' = r.data
    /\ ret' = r.ret
    /\ kwargs' = [kwargs EXCEPT !.fwd = fwd]
    /\ pc' = IF r.ret.raised = None THEN "idle" ELSE "raised"

Phase1TrainerTrainStep ==
    /\ pc = "idle" /\ trainer.cls = "Phase1Trainer"
    /\ trainer.optimizer.steps < MaxSteps
    /\ \E d \in TrainBatches(trainer), fwd \in TrainFwds(trainer) :
           Step(Phase1Trainer_train_step(trainer, d, fwd), fwd)

Phase2TrainerTrainStep ==
    /\ pc = "idle" /\ trainer.cls = "Phase2Trainer"
    /\ trainer.optimizer.steps < MaxSteps
    /\ \E d \in TrainBatches(trainer), fwd \in TrainFwds(trainer) :
           Step(Phase2Trainer_train_step(trainer, d, fwd), fwd)

Phase2HalfwayTrainerTrainStep ==
    /\ pc = "idle" /\ trainer.cls = "Phase2HalfwayTrainer"
    /\ trainer.optimizer.steps < MaxSteps
    /\ \E d \in TrainBatches(trainer), fwd \in TrainFwds(trainer) :
           Step(Phase2HalfwayTrainer_train_step(trainer, d, fwd), fwd)

Phase1TrainerEvalStep ==
    /\ pc = "idle" /\ trainer.cls = "Phase1Trainer"
    /\ \E d \in TrainBatches(trainer), fwd \in TrainFwds(trainer) :
           Step(Phase1Trainer_eval_step(trainer, d, fwd), fwd)

Phase2TrainerEvalStep ==
    /\ pc = "idle" /\ trainer.cls = "Phase2Trainer"
    /\ \E d \in TrainBatches(trainer), fwd \in TrainFwds(trainer) :
           Step(Phase2Trainer_eval_step(trainer, d, fwd), fwd)

Phase2HalfwayTrainerEvalStep ==
    /\ pc = "idle" /\ trainer.cls = "Phase2HalfwayTrainer"
    /\ \E d \in TrainBatches(trainer), fwd \in TrainFwds(trainer) :
           Step(Phase2HalfwayTrainer_eval_step(trainer, d, fwd), fwd)

NextTrain ==
    \/ Phase1TrainerNew
    \/ Phase2TrainerNew
    \/ Phase2HalfwayTrainerNew
    \/ Phase1TrainerTrainStep
    \/ Phase2TrainerTrainStep
    \/ Phase2HalfwayTrainerTrainStep
    \/ Phase1TrainerEvalStep
    \/ Phase2TrainerEvalStep
    \/ Phase2HalfwayTrainerEvalStep

SpecTrain == InitTrain /\ [][NextTrain]_vars

TrainStepReturned == pc # "start" /\ ret.op = "train_step" /\ ret.raised = None
ValidHalfwayConfig(kw) ==
    /\ kw.input_type \in {"depth_pred", "depth_pointcloud"}
    /\ kw.depth_pointcloud_transfer \in NamedTransfers

(***************************************************************************)
(* C2: a Phase2Trainer built with training_detach=True on a model with a   *)
(* depth_predictor has that group's requires_grad False, predicts the      *)
(* depth maps without gradients in every train_step, and leaves the        *)
(* depth_predictor parameters at their values at construction whatever     *)
(* train_step and eval_step calls follow.  With training_detach=False the  *)
(* constructor changes no requires_grad and the prediction is made with    *)
(* gradients.                                                              *)
(***************************************************************************)
C2_Phase2KeepsPhase1 ==
    (pc # "start" /\ trainer.cls = "Phase2Trainer") =>
        /\ (trainer.training_detach /\ trainer.model.depth_predictor # None) =>
              /\ ~trainer.model.requires_grad["depth_predictor"]
              /\ trainer.model.params["depth_predictor"]
                     = kwargs.model.params["depth_predictor"]
              /\ trainer.model.grad["depth_predictor"] = NoGrad
        /\ trainer.training_detach =>
              (TrainStepReturned => ~ret.loss.predict_grad)
        /\ ~trainer.training_detach =>
              /\ trainer.model.requires_grad = kwargs.model.requires_grad
              /\ TrainStepReturned => ret.loss.predict_grad

\* two optimizer steps that moved the occupancy network and not the predictor
C2_Witness ==
    /\ pc = "idle"
    /\ trainer.cls = "Phase2Trainer"
    /\ trainer.training_detach /\ trainer.model.depth_predictor # None
    /\ trainer.optimizer.steps = 2
    /\ trainer.model.params["occupancy"] # kwargs.model.params["occupancy"]
    /\ trainer.model.params["depth_predictor"] = kwargs.model.params["depth_predictor"]

(***************************************************************************)
(* C7: Phase2HalfwayTrainer's constructor succeeds only for input_type     *)
(* 'depth_pred' or 'depth_pointcloud' with depth_pointcloud_transfer one   *)
(* of the four named transfers; every other value of either fails an       *)
(* assertion (also None, and also under 'depth_pred', which never uses the *)
(* transfer), so no Phase2HalfwayTrainer has an unsupported configuration. *)
(***************************************************************************)
C7_HalfwayConstructor ==
    /\ (pc # "start" /\ kwargs.ctor.cls = "Phase2HalfwayTrainer") =>
          IF ValidHalfwayConfig(kwargs.ctor)
          THEN trainer.cls = "Phase2HalfwayTrainer"
          ELSE /\ pc = "raised" /\ ret.op = "__init__"
               /\ ret.raised = "AssertionError"
               /\ trainer = NoTrainer
    /\ trainer.cls = "Phase2HalfwayTrainer" => ValidHalfwayConfig(trainer)

\* 'depth_pred' never reads the transfer, and None is still refused
C7_Witness ==
    /\ pc = "raised"
    /\ kwargs.ctor.cls = "Phase2HalfwayTrainer"
    /\ kwargs.ctor.input_type = "depth_pred"
    /\ kwargs.ctor.depth_pointcloud_transfer = None
    /\ ret.raised = "AssertionError"
    /\ trainer = NoTrainer

(***************************************************************************)
(* C3: for each of the three trainers a train_step call makes these calls  *)
(* in this order: model.train(), optimizer.zero_grad(), compute_loss,      *)
(* loss.backward(), optimizer.step(), and returns the loss value;          *)
(* optimizer.step() runs once, after the backward pass, and the gradients  *)
(* it uses are those of this call's loss alone.                            *)
(***************************************************************************)
TrainStepCalls ==
    <<"model.train", "optimizer.zero_grad", "compute_loss", "loss.backward",
      "optimizer.step">>

TrainStepAsClaimed ==
    /\ ret.raised = None
    /\ ret.calls = TrainStepCalls
    /\ ret.value = ret.loss.loss.value
    /\ trainer.model.training
    /\ \A g \in DOMAIN trainer.model.grad :
           g \in ret.loss.loss.graph => trainer.model.grad[g] = GradOf(kwargs.fwd.grad)

C3_TrainStepOrder ==
    (pc # "start" /\ ret.op = "train_step") => TrainStepAsClaimed

\* What does hold: a train_step whose compute_loss gives a tensor is as claimed,
\* and the only train_step that raises is Phase1Trainer's, without pred_minmax,
\* on a batch whose masks hold no object pixel
C3_TrainStepOrderOnTensorLoss ==
    (pc # "start" /\ ret.op = "train_step") =>
        IF ret.raised = None
        THEN TrainStepAsClaimed
        ELSE /\ ret.raised = "AttributeError"
             /\ trainer.cls = "Phase1Trainer" /\ ~trainer.pred_minmax
             /\ MaskPixCount(data["inputs.mask"]) = 0
             /\ ret.calls = <<"model.train", "optimizer.zero_grad", "compute_loss">>

(***************************************************************************)
(* C4: eval_step puts the model in eval mode and calls none of             *)
(* optimizer.zero_grad(), loss.backward(), optimizer.step(): parameters,   *)
(* gradients and optimizer state are as before the call; after train_step  *)
(* the model is in train mode, after eval_step in eval mode.  For          *)
(* Phase2Trainer and Phase2HalfwayTrainer the returned dict has the keys   *)
(* loss (minus the mean ELBO), rec_error, kl, iou, and iou_voxels iff the  *)
(* batch has a 'voxels' entry; for Phase1Trainer it has the one key        *)
(* eval_loss.                                                              *)
(***************************************************************************)
\* minus the mean over the batch of -rec_error - kl, in thousandths
MinusMeanElbo(fwd) ==
    (1000 * SumSeq([b \in DOMAIN fwd.kl |-> fwd.rec_error[b] + fwd.kl[b]]))
        \div Len(fwd.kl)

EvalStepFrame ==
    /\ ~trainer'.model.training
    /\ trainer'.model.params = trainer.model.params
    /\ trainer'.model.grad = trainer.model.grad
    /\ trainer'.model.requires_grad = trainer.model.requires_grad
    /\ trainer'.optimizer = trainer.optimizer
    /\ \A i \in DOMAIN ret'.calls :
           ret'.calls[i] \notin {"optimizer.zero_grad", "loss.backward", "optimizer.step"}

EvalStepAsClaimed ==
    /\ EvalStepFrame
    /\ ret'.raised = None
    /\ IF trainer.cls = "Phase1Trainer"
       THEN DOMAIN ret'.value = {"eval_loss"}
       ELSE /\ DOMAIN ret'.value =
                   {"loss", "rec_error", "kl", "iou"}
                       \cup (IF "voxels" \in DOMAIN data' THEN {"iou_voxels"} ELSE {})
            /\ ret'.value["loss"] = MinusMeanElbo(kwargs'.fwd)

C4_EvalStep ==
    [][/\ (pc = "idle" /\ ret'.op = "eval_step") => EvalStepAsClaimed
       /\ (pc = "idle" /\ ret'.op = "train_step") => trainer'.model.training]_vars

\* What does hold: eval_step never touches parameters, gradients or optimizer,
\* and returns the dict as claimed unless it is Phase1Trainer's, without
\* pred_minmax, on a batch whose masks hold no object pixel
C4_EvalStepOnTensorLoss ==
    [][/\ (pc = "idle" /\ ret'.op = "eval_step") =>
              /\ EvalStepFrame
              /\ IF ret'.raised = None
                 THEN EvalStepAsClaimed
                 ELSE /\ ret'.raised = "AttributeError"
                      /\ trainer.cls = "Phase1Trainer" /\ ~trainer.pred_minmax
                      /\ MaskPixCount(data'["inputs.mask"]) = 0
       /\ (pc = "idle" /\ ret'.op = "train_step") => trainer'.model.training]_vars

(***************************************************************************)
(* Phase2HalfwayTrainer.compute_loss on its own: a constructed trainer, a  *)
(* batch, and one call whose forward pass yields any encoder output (a     *)
(* tensor or a tuple of 1..MaxTupleLen elements), KL vector, occupancy     *)
(* loss matrix and regulariser value.  The elements of a tuple are         *)
(* numbered by position, so that each can be told from the others.         *)
(***************************************************************************)
EncoderOutputs ==
    {[type |-> "Tensor", val |-> 1]}
        \cup {[type |-> "tuple", val |-> [i \in 1..n |-> i]] : n \in 1..MaxTupleLen}

LossFwds ==
    [grad : {1}, mse : {250}, minmax : {500},
     pr_depth_maps : {<<[p \in Pixels |-> 2 * AlphaDen]>>}, alpha : {<<1>>},
     c : EncoderOutputs,
     kl : [1..2 -> {0, 2}], loss_i : [1..2 -> [1..2 -> {0, 1}]], reg : 1..MaxReg,
     rec_error : {<<2, 4>>}, iou : {500}, iou_voxels : {250}]

LossKwargs ==
    {[DefaultKwargs EXCEPT !.cls = "Phase2HalfwayTrainer",
                           !.has_depth_predictor = FALSE,
                           !.encoder = e, !.input_type = it, !.local = l] :
        e \in Encoders, it \in {"depth_pred", "depth_pointcloud"}, l \in BOOLEAN}

InitLoss ==
    /\ pc = "start"
    /\ ret = NoReturn
    /\ \E kw \in LossKwargs :
         LET model == NewModel(kw.has_depth_predictor, kw.encoder)
         IN  /\ kwargs = [ctor |-> kw, model |-> model, fwd |-> None]
             /\ trainer = Phase2HalfwayTrainer_init(model, kw).self
             /\ data = IF kw.input_type = "depth_pointcloud"
                       THEN SmallPointCloudBatch ELSE SmallDepthBatch

Phase2HalfwayTrainerComputeLoss ==
    /\ pc = "start"
    /\ \E fwd \in LossFwds :
         LET l == Phase2HalfwayTrainer_compute_loss(trainer, data, fwd, TRUE)
         IN  /\ ret' = [op |-> "compute_loss", raised |-> l.raised, calls |-> <<>>,
                        value |-> None, loss |-> l]
             /\ data' = l.data
             /\ kwargs' = [kwargs EXCEPT !.fwd = fwd]
    /\ pc' = "done"
    /\ UNCHANGED trainer

NextLoss == Phase2HalfwayTrainerComputeLoss

SpecLoss == InitLoss /\ [][NextLoss]_vars

LossCalled == pc = "done" /\ ret.op = "compute_loss"
LossComputed == LossCalled /\ ret.raised = None

\* The elements handed to the decoder
DecoderElements(c) == IF IsTuple(c) THEN {c.val[i] : i \in DOMAIN c.val} ELSE {c.val}
LastElement(c) == c.val[Len(c.val)]

\* kl.mean() + loss_i.sum(-1).mean(), plus the regulariser term when it applies
ExpectedLoss(fwd, with_regulariser) ==
    (1000 * SumSeq(fwd.kl)) \div Len(fwd.kl)
      + (IF with_regulariser THEN RegWeightMilli * fwd.reg ELSE 0)
      + (1000 * SumSeq([b \in DOMAIN fwd.loss_i |-> SumSeq(fwd.loss_i[b])]))
            \div Len(fwd.loss_i)

ExpectedDecoderInput(c, local) ==
    IF IsTuple(c)
    THEN IF local THEN [type |-> "tuple", val |-> <<c.val[1], c.val[2]>>]
                  ELSE [type |-> "Tensor", val |-> c.val[1]]
    ELSE c

RegulariserAndLossAsClaimed ==
    LET c == kwargs.fwd.c
        with_regulariser == IsTuple(c) /\ IsPointNet(trainer.model.encoder)
    IN  /\ ret.loss.regularised = with_regulariser
        /\ ret.loss.loss.type = "Tensor"
        /\ ret.loss.loss.value = ExpectedLoss(kwargs.fwd, with_regulariser)

SetMax(S) == CHOOSE x \in S : \A y \in S : y <= x
SetMin(S) == CHOOSE x \in S : \A y \in S : x <= y

depth_to_L(pr_depth_map, gt_mask) ==
    LET selected == {pr_depth_map[p] : p \in {q \in DOMAIN pr_depth_map : gt_mask[q] = 1}}
    IN  IF selected = {}
        \* torch.max of an empty tensor
        THEN [pr_depth_map |-> pr_depth_map, gt_mask |-> gt_mask,
              after |-> pr_depth_map, raised |-> "RuntimeError", value |-> None]
        ELSE LET pr_depth_map_max == SetMax(selected)
                 pr_depth_map_min == SetMin(selected)
                 written == background_setting(<<pr_depth_map>>, <<gt_mask>>,
                                               pr_depth_map_max)[1]
             IN  [pr_depth_map |-> pr_depth_map, gt_mask |-> gt_mask,
                  after |-> written, raised |-> None,
                  value |-> [num |-> [p \in DOMAIN written |->
                                         written[p] - pr_depth_map_min],
                             den |-> pr_depth_map_max - pr_depth_map_min]]

\* for i in trange(batch_size) of Phase1Trainer.visualize, from sample i on;
\* pr_depth_maps[i] and gt_depth_maps[i] are views of the batch tensors
RECURSIVE Phase1Trainer_visualize_loop(_, _)
Phase1Trainer_visualize_loop(s, i) ==
    IF i > Len(s.gt_masks) \/ s.raised # None
    THEN s
    ELSE LET pr == depth_to_L(s.pr_depth_maps[i], s.gt_masks[i])
             gt == depth_to_L(s.gt_depth_maps[i], s.gt_masks[i])
         IN  IF pr.raised # None
             THEN [s EXCEPT !.raised = pr.raised, !.calls = Append(@, pr)]
             ELSE Phase1Trainer_visualize_loop(
                      [s EXCEPT !.pr_depth_maps[i] = pr.after,
                                !.gt_depth_maps[i] = gt.after,
                                !.raised = gt.raised,
                                !.calls = Append(Append(@, pr), gt)],
                      i + 1)

Phase1Trainer_visualize(tr, d, fwd) ==
    LET s == Phase1Trainer_visualize_loop(
                 [pr_depth_maps |-> fwd.pr_depth_maps,
                  gt_depth_maps |-> d["inputs.depth"],
                  gt_masks |-> byte(d["inputs.mask"]),
                  raised |-> None, calls |-> <<>>], 1)
    IN  [trainer |-> [tr EXCEPT !.model.training = FALSE],
         data |-> [d EXCEPT !["inputs.depth"] = s.gt_depth_maps],
         ret |-> [op |-> "visualize", raised |-> s.raised, calls |-> s.calls,
                  pr_depth_maps_before |-> fwd.pr_depth_maps,
                  pr_depth_maps |-> s.pr_depth_maps]]

\* for i in trange(batch_size) of Phase2Trainer.visualize, from sample i on;
\* pr_depth_maps[i].cpu() is a view of the batch tensor when that is on the cpu
RECURSIVE Phase2Trainer_visualize_loop(_, _, _)
Phase2Trainer_visualize_loop(s, i, device) ==
    IF i > Len(s.gt_masks) \/ s.raised # None
    THEN s
    ELSE LET depth_map == depth_to_L(s.pr_depth_maps[i], s.gt_masks[i])
         IN  Phase2Trainer_visualize_loop(
                 [s EXCEPT !.pr_depth_maps[i] =
                               IF SameTensor(device) THEN depth_map.after ELSE @,
                           !.raised = depth_map.raised,
                           !.calls = Append(@, depth_map)],
                 i + 1, device)

Phase2Trainer_visualize(tr, d, fwd) ==
    LET gt_mask == byte(d["inputs.mask"])
        pr_depth_maps == background_setting(fwd.pr_depth_maps, gt_mask, 0)
        s == Phase2Trainer_visualize_loop(
                 [pr_depth_maps |-> pr_depth_maps, gt_masks |-> gt_mask,
                  raised |-> None, calls |-> <<>>], 1, tr.device)
    IN  [trainer |-> tr, data |-> d,
         ret |-> [op |-> "visualize", raised |-> s.raised, calls |-> s.calls,
                  pr_depth_maps_before |-> pr_depth_maps,
                  pr_depth_maps |-> s.pr_depth_maps]]

(***************************************************************************)
(* The calls of depth_to_L: one direct call on a depth map and a mask, or  *)
(* one visualize call of a Phase1Trainer or a Phase2Trainer on a batch of  *)
(* one or two samples.  kwargs.data keeps the batch as it was passed.      *)
(***************************************************************************)
VisualizeBatch(masks, gts) ==
    [SmallDepthBatch EXCEPT !["inputs.mask"] = masks, !["inputs.depth"] = gts]

\* The first sample of a batch of two: one with an object pixel, one without
FirstSamples ==
    {[mask |-> [p \in Pixels |-> IF p = 1 THEN 1 ELSE 0],
      gt |-> [p \in Pixels |-> IF p = 1 THEN AlphaDen ELSE 2 * AlphaDen],
      pr |-> [p \in Pixels |-> IF p = 1 THEN 2 * AlphaDen ELSE AlphaDen]],
     [mask |-> [p \in Pixels |-> 0],
      gt |-> [p \in Pixels |-> AlphaDen],
      pr |-> [p \in Pixels |-> AlphaDen]]}

VisualizeInputs ==
    {[masks |-> <<m>>, gts |-> <<gt>>, prs |-> <<pr>>] :
        m \in Masks, gt \in DepthMaps, pr \in DepthMaps}
      \cup {[masks |-> <<f.mask, m>>, gts |-> <<f.gt, gt>>, prs |-> <<f.pr, pr>>] :
               f \in FirstSamples, m \in Masks, gt \in DepthMaps, pr \in DepthMaps}

VisualizeKwargs ==
    {[DefaultKwargs EXCEPT !.cls = "Phase1Trainer"]}
      \cup {[DefaultKwargs EXCEPT !.cls = "Phase2Trainer", !.device = dev] :
               dev \in Devices}

InitVisualize ==
    /\ pc = "start"
    /\ ret = NoReturn
    /\ \E in \in VisualizeInputs :
         /\ data = VisualizeBatch(in.masks, in.gts)
         /\ \/ /\ Len(in.masks) = 1
               /\ trainer = NoTrainer
               /\ kwargs = [ctor |-> DefaultKwargs, model |-> None,
                            fwd |-> [pr_depth_maps |-> in.prs], data |-> data]
            \/ \E kw \in VisualizeKwargs :
                 LET model == NewModel(kw.has_depth_predictor, kw.encoder)
                 IN  /\ trainer = IF kw.cls = "Phase1Trainer"
                                  THEN Phase1Trainer_init(model, kw).self
                                  ELSE Phase2Trainer_init(model, kw).self
                     /\ kwargs = [ctor |-> kw, model |-> model,
                                  fwd |-> [pr_depth_maps |-> in.prs], data |-> data]

\* depth_to_L(pr_depth_map, gt_mask) on the predicted map and mask of the sample
DepthToLCall ==
    /\ pc = "start" /\ trainer = NoTrainer
    /\ LET call == depth_to_L(kwargs.fwd.pr_depth_maps[1], byte(data["inputs.mask"])[1])
       IN  ret' = [op |-> "depth_to_L", raised |-> call.raised, calls |-> <<call>>,
                   pr_depth_maps_before |-> kwargs.fwd.pr_depth_maps,
                   pr_depth_maps |-> <<call.after>>]
    /\ pc' = "done"
    /\ UNCHANGED <<trainer, data, kwargs>>

Visualized(r) ==
    /\ trainer' = r.trainer
    /\ data' = r.data
    /\ ret' = r.ret
    /\ pc' = "done"
    /\ UNCHANGED kwargs

Phase1TrainerVisualize ==
    /\ pc = "start" /\ trainer.cls = "Phase1Trainer"
    /\ Visualized(Phase1Trainer_visualize(trainer, data, kwargs.fwd))

Phase2TrainerVisualize ==
    /\ pc = "start" /\ trainer.cls = "Phase2Trainer"
    /\ Visualized(Phase2Trainer_visualize(trainer, data, kwargs.fwd))

NextVisualize ==
    \/ DepthToLCall
    \/ Phase1TrainerVisualize
    \/ Phase2TrainerVisualize

SpecVisualize == InitVisualize /\ [][NextVisualize]_vars

DepthToLCalled == pc = "done" /\ ret.op \in {"depth_to_L", "visualize"}

\* The background pixels of a call's mask
Background(call) == {p \in DOMAIN call.gt_mask : call.gt_mask[p] # 1}

(***************************************************************************)
(* C5: depth_to_L is not an in-place function: the depth map passed as     *)
(* argument holds the same values after the call as before it, and so does *)
(* the batch of depth maps whose per-sample slice visualize passes.        *)
(***************************************************************************)
C5_DepthToLNotInPlace ==
    DepthToLCalled =>
        /\ \A i \in DOMAIN ret.calls : ret.calls[i].after = ret.calls[i].pr_depth_map
        /\ data["inputs.depth"] = kwargs.data["inputs.depth"]
        /\ ret.op = "visualize" /\ SameTensor(trainer.device) =>
               ret.pr_depth_maps = ret.pr_depth_maps_before

\* What does hold: after a call that returns, the argument has the largest
\* object depth written to its background pixels and its object pixels as
\* before; it is as before only when no background pixel held another value
C5_DepthToLWritesBackground ==
    DepthToLCalled =>
        \A i \in DOMAIN ret.calls :
            LET call == ret.calls[i]
            IN  IF call.raised # None
                THEN /\ call.after = call.pr_depth_map
                     /\ Background(call) = DOMAIN call.gt_mask
                ELSE /\ \A p \in DOMAIN call.gt_mask \ Background(call) :
                            call.after[p] = call.pr_depth_map[p]
                     /\ \A p \in Background(call) :
                            /\ \A q \in DOMAIN call.gt_mask \ Background(call) :
                                   call.after[p] >= call.pr_depth_map[q]
                            /\ \E q \in DOMAIN call.gt_mask \ Background(call) :
                                   call.after[p] = call.pr_depth_map[q]
                            /\ call.value.num[p] = call.value.den

=============================================================================
